---- MODULE Spec2Model ----
(***************************************************************************)
(* A model of fbx_exporter_v008.py: the exporter dialog, its list of       *)
(* exportables, the export batch driven by _export_fbxs and _ProgressBar,  *)
(* the settings store, the border keys of _fbx_export_selection and the    *)
(* world-space camera export.                                              *)
(*                                                                         *)
(* Strings are sequences of tokens; the separators the code looks for      *)
(* (":", ",", " ") are tokens of their own, so that split(':') and         *)
(* re.split('[ ,]') are computed, not assumed.                             *)
(***************************************************************************)
EXTENDS Integers, Sequences, FiniteSets, TLC

(***************************************************************************)
(* Bounds of the model.                                                    *)
(***************************************************************************)
\* the most export batches started in one behaviour
MaxRuns == 1
\* the most dialog and scene events, other than Export clicks and answers to
\* message boxes, in one behaviour with export batches
MaxEvents == 1
\* the most dialog and scene events in one behaviour without export batches
MaxUiEvents == 6
\* the longest list a _ProgressBar is given on its own
MaxItems == 5
\* UI and scene events in a behaviour of the list and the batches together
MaxListEvents == 2
\* the last frame of the timeline; the first is 1
MaxFrame == 3

(***************************************************************************)
(* String helpers.                                                         *)
(***************************************************************************)
Has(s, c) == \E i \in 1..Len(s) : s[i] = c

RECURSIVE SplitFrom(_, _, _, _)
\* str.split / re.split: the pieces of s between tokens of seps; cur is the
\* piece being read, i the position.  n separators give n+1 pieces, the
\* empty ones included.
SplitFrom(s, seps, i, cur) ==
    IF i > Len(s) THEN <<cur>>
    ELSE IF s[i] \in seps THEN <<cur>> \o SplitFrom(s, seps, i + 1, <<>>)
    ELSE SplitFrom(s, seps, i + 1, Append(cur, s[i]))

Split(s, seps) == SplitFrom(s, seps, 1, <<>>)

\* '{}:{}'.format(ns, root)
NodeName(ns, root) == ns \o <<":">> \o root

RECURSIVE SeqToSet(_)
SeqToSet(s) == IF s = <<>> THEN {} ELSE {Head(s)} \cup SeqToSet(Tail(s))

RECURSIVE FilterSeq(_, _)
\* [x for x in s if x in keep]
FilterSeq(s, keep) ==
    IF s = <<>> THEN <<>>
    ELSE IF Head(s) \in keep THEN <<Head(s)>> \o FilterSeq(Tail(s), keep)
    ELSE FilterSeq(Tail(s), keep)

(***************************************************************************)
(* The scene the host holds.  The camera shapes and the reference nodes    *)
(* are listed in the order cmds.ls returns them.                           *)
(***************************************************************************)
\* cmds.ls(type='camera'), each shape given by its parent transform
SceneCams == << <<"persp">>, <<"s", ":", "a">> >>

\* cmds.ls(type='reference'): file is referenceQuery(filename) (FALSE when it
\* raises RuntimeError), loaded is referenceQuery(isLoaded), parentNs is
\* referenceQuery(parentNamespace)[0], ns is cmds.file(query, namespace)
SceneRefs == <<
    [node |-> "r1", file |-> TRUE,  loaded |-> TRUE,  parentNs |-> <<>>,    ns |-> <<"s">>],
    [node |-> "r2", file |-> FALSE, loaded |-> TRUE,  parentNs |-> <<>>,    ns |-> <<"n">>],
    [node |-> "r3", file |-> TRUE,  loaded |-> FALSE, parentNs |-> <<>>,    ns |-> <<"u">>],
    [node |-> "r4", file |-> TRUE,  loaded |-> TRUE,  parentNs |-> <<"s">>, ns |-> <<"v">>],
    [node |-> "r5", file |-> TRUE,  loaded |-> TRUE,  parentNs |-> <<>>,    ns |-> <<"t">>] >>

\* root nodes that exist whatever happens to the scene
FixedNodes == { NodeName(<<"n">>, <<"J">>), NodeName(<<"u">>, <<"J">>),
                NodeName(<<"v">>, <<"J">>) }
\* root nodes the artist may delete or create while the dialog is up
LooseNodes == { NodeName(<<"s">>, <<"J">>), NodeName(<<"t">>, <<"K">>) }

\* the texts the roots field takes
RootsTexts == { <<"J", ",", " ", "K">>, <<"K">> }

\* the directories the path field takes; DefaultPath is ~/Documents
DefaultPath == <<"d1">>
OtherPath == <<"d2">>
Dirs == {DefaultPath, OtherPath}
\* _Path(cmds.file(query=True, location=True)).basename
SceneBase == <<"shot">>

(***************************************************************************)
(* State.                                                                  *)
(***************************************************************************)
VARIABLES
    ui,         \* the five persisted widgets of _FbxExporterUi
    settings,   \* the QSettings store: attr -> value
    listItems,  \* ui.exportables: the list widget's items, in order
    dlgOpen,    \* the dialog is shown (not yet closed)
    nodes,      \* the loose root nodes that exist in the scene
    dirs,       \* the directories that exist on disk
    files,      \* the fbx files that exist on disk
    stack,      \* the running _export_fbxs calls, innermost last
    nRuns,      \* the number of _export_fbxs calls made
    nEvents,    \* the number of other dialog and scene events handled
    loadGhost,  \* what the last load_settings saw and did
    savedUi,    \* the widgets as the last save_settings read them
    drawnOn,    \* the live nodes when the list was last redrawn
    curves,     \* the animation curve of each channel: node -> attr -> curve
    selected,   \* cmds.ls(selection=True)
    curNs,      \* the current namespace
    tmpNodes,   \* the nodes in the namespace :export_tmp
    cpc,        \* where _Camera.export_fbx_in_world_space stands
    xpc,        \* where _Exportable.export_fbx stands
    xarg,       \* the arguments of the export under way
    entry       \* the curves and :export_tmp nodes when the export was called

\* the dialog, the disk and the export batches
dialogVars == <<ui, settings, listItems, dlgOpen, nodes, stack, nRuns, nEvents,
                loadGhost, savedUi, drawnOn>>
\* the scene graph one export works on
sceneVars == <<curves, selected, curNs, tmpNodes, cpc, xpc, xarg, entry>>

vars == <<ui, settings, listItems, dlgOpen, nodes, dirs, files, stack, nRuns,
          nEvents, loadGhost, savedUi, drawnOn, curves, selected, curNs,
          tmpNodes, cpc, xpc, xarg, entry>>

(***************************************************************************)
(* Exportables: _Camera and _Rig.                                          *)
(***************************************************************************)
Camera(tfm) == [kind |-> "cam", id |-> tfm]
Rig(refNode) == [kind |-> "rig", id |-> <<refNode>>]

RefOf(refNode) ==
    CHOOSE r \in SeqToSet(SceneRefs) : r.node = refNode

\* _Rig.namespace
RigNamespace(exp) == RefOf(exp.id[1]).ns

\* _Camera.name: the part before the first ':' of a namespaced transform
CameraName(tfm) ==
    IF Has(tfm, ":") THEN Split(tfm, {":"})[1] ELSE tfm

\* the name property of either exportable
ExpName(exp) ==
    IF exp.kind = "cam" THEN CameraName(exp.id) ELSE RigNamespace(exp)

\* cmds.objExists
ObjExists(node, live) == node \in FixedNodes \/ node \in live

DefaultCamNames == { <<"persp">>, <<"top">>, <<"front">>, <<"side">> }

RECURSIVE FindCamsFrom(_, _)
FindCamsFrom(shapes, default) ==
    IF shapes = <<>> THEN <<>>
    ELSE IF ~default /\ Head(shapes) \in DefaultCamNames
         THEN FindCamsFrom(Tail(shapes), default)
         ELSE <<Camera(Head(shapes))>> \o FindCamsFrom(Tail(shapes), default)

\* _find_cams
FindCams(default) == FindCamsFrom(SceneCams, default)

\* a slip: the root test left out
RefHasRootUntested(ref, roots, live) == TRUE

\* the root test of _find_rigs: some '<namespace>:<root>' exists
RefHasRoot(ref, roots, live) ==
    \E i \in 1..Len(roots) : ObjExists(NodeName(ref.ns, roots[i]), live)

\* a slip: the isLoaded test left out
IsRigUnloaded(ref, roots, live) ==
    /\ ref.file
    /\ ref.parentNs = <<>>
    /\ RefHasRoot(ref, roots, live)

\* the four tests of _find_rigs on one reference node
IsRig(ref, roots, live) ==
    /\ ref.file
    /\ ref.loaded
    /\ ref.parentNs = <<>>
    /\ RefHasRoot(ref, roots, live)

RECURSIVE FindRigsFrom(_, _, _)
FindRigsFrom(refs, roots, live) ==
    IF refs = <<>> THEN <<>>
    ELSE IF IsRig(Head(refs), roots, live)
         THEN <<Rig(Head(refs).node)>> \o FindRigsFrom(Tail(refs), roots, live)
         ELSE FindRigsFrom(Tail(refs), roots, live)

\* _find_rigs
FindRigs(roots, live) == FindRigsFrom(SceneRefs, roots, live)

\* re.split('[ ,]', self.ui.roots.text())
RootsOf(text) == Split(text, {",", " "})

\* _FbxExporter._redraw__exportables: the list after clear() and the two loops
Redraw(u, live) ==
    FindCams(u.show_default_cams) \o FindRigs(RootsOf(u.roots), live)

(***************************************************************************)
(* Settings: _FbxExporterUi.save_settings and load_settings on a QSettings *)
(* store in INI format.  A value set in this process is held as it was     *)
(* given (a bool stays a bool); a value read back from the INI file is a   *)
(* string, a bool having been written as 'true' or 'false'.                *)
(***************************************************************************)
SaveAttrs == <<"add_border_keys", "bake_cams_in_world", "path",
               "show_default_cams", "roots">>
SaveAttrSet == SeqToSet(SaveAttrs)

\* isinstance(_elem, QtWidgets.QCheckBox); the other widgets are QLineEdits
IsCheckBox(attr) ==
    attr \in {"add_border_keys", "bake_cams_in_world", "show_default_cams"}

NoValue == [t |-> "none"]
BoolValue(b) == [t |-> "bool", v |-> b]
StrValue(x) == [t |-> "str", v |-> x]

EmptyStore == [a \in SaveAttrSet |-> NoValue]

\* the widgets as the _setup_* methods leave them
WidgetDefaults ==
    [add_border_keys |-> TRUE, bake_cams_in_world |-> TRUE, path |-> <<>>,
     show_default_cams |-> FALSE, roots |-> <<"J", ",", " ", "K">>]

\* save_settings: isChecked() of a checkbox, text() of a line edit
SaveSettings(u) ==
    [a \in SaveAttrSet |->
        IF IsCheckBox(a) THEN BoolValue(u[a]) ELSE StrValue(u[a])]

\* what a new process reads from the INI file the store was synced to
IniRead(val) ==
    IF val.t = "bool"
    THEN StrValue(IF val.v THEN <<"true">> ELSE <<"false">>)
    ELSE val

\* a slip: the value taken as the store gives it
BoolFromStoreAsIs(val) == val

\* {'true': True, 'false': False}.get(_val, _val)
BoolFromStore(val) ==
    IF val.t = "str" /\ val.v = <<"true">> THEN BoolValue(TRUE)
    ELSE IF val.t = "str" /\ val.v = <<"false">> THEN BoolValue(FALSE)
    ELSE val

\* one turn of the loop of load_settings: the widget's value afterwards
LoadOne(attr, old, val) ==
    IF val.t = "none" THEN old
    ELSE IF IsCheckBox(attr)
         THEN IF BoolFromStore(val).t = "bool" THEN BoolFromStore(val).v ELSE old
         ELSE val.v

\* load_settings
LoadSettings(u, st) == [a \in SaveAttrSet |-> LoadOne(a, u[a], st[a])]

(***************************************************************************)
(* Construction: _FbxExporter.__init__ and launch_fbx_exporter.            *)
(***************************************************************************)
NoArg == <<>>

\* setup_ui: the path falls back to default_path when empty or not on disk
FixPath(u, onDisk) ==
    IF u.path = <<>> \/ u.path \notin onDisk
    THEN [u EXCEPT !.path = DefaultPath] ELSE u

\* launch_fbx_exporter: the widgets once the dialog is built and the path and
\* roots arguments are applied
LaunchUi(st, onDisk, argPath, argRoots) ==
    LET built == FixPath(LoadSettings(WidgetDefaults, st), onDisk)
        withPath == IF argPath # NoArg THEN [built EXCEPT !.path = argPath]
                    ELSE built
    IN  IF argRoots # NoArg THEN [withPath EXCEPT !.roots = argRoots]
        ELSE withPath

\* no save_settings yet
NeverSaved == [has |-> FALSE, ui |-> WidgetDefaults]

LoadGhostOf(st, saved) ==
    [store |-> st, before |-> WidgetDefaults,
     after |-> LoadSettings(WidgetDefaults, st), saved |-> saved]

(***************************************************************************)
(* _MessageBox.  Positions are counted from 1 here and from 0 in the code. *)
(***************************************************************************)
IndexOf(s, x) == CHOOSE i \in 1..Len(s) : s[i] = x

\* _add_buttons: a hidden Cancel button is added when none was asked for; it
\* is the escape button and the default button
AddButtons(buttons) ==
    IF Has(buttons, "Cancel") THEN buttons ELSE Append(buttons, "Cancel")

\* what the user can do to a box: click a button it shows, press Escape,
\* close the window
UserActs(buttons) == SeqToSet(buttons) \cup {"Escape", "Close"}

\* exec_(): the position of the clicked button; Escape and the window's close
\* button click the escape button
ExecResult(buttons, act) ==
    IF act \in {"Escape", "Close"}
    THEN IndexOf(AddButtons(buttons), "Cancel")
    ELSE IndexOf(AddButtons(buttons), act)

\* get_result before its raise: "Cancel" stands for RuntimeError
GetResult(buttons, act) == AddButtons(buttons)[ExecResult(buttons, act)]

OkCancelButtons == <<"Ok", "Cancel">>
NotifyButtons == <<"Ok">>
\* _ok_cancel and _notify
OkCancel(act) == GetResult(OkCancelButtons, act)
Notify(act) == GetResult(NotifyButtons, act)

(***************************************************************************)
(* _ProgressBar.                                                           *)
(***************************************************************************)
\* 1.0 - 1.0*len(items)/n_items is computed in doubles and setValue cuts the
\* product with 100 to an int: for n_items up to 7 the result is the exact
\* floor except at 1 of 5, where the double is 19.999999999999996
FloatLoss(left, n) == IF n = 5 /\ left = 4 THEN 1 ELSE 0

ProgressValue(left, n) == (100 * (n - left)) \div n - FloatLoss(left, n)

\* __init__: a copy of the items, the widget shown at value 0
BarInit(items) ==
    [items |-> items, n_items |-> Len(items), value |-> 0, shown |-> TRUE]

\* a slip: pop() for pop(0)
BarPopLast(bar) ==
    [bar EXCEPT !.items = SubSeq(bar.items, 1, Len(bar.items) - 1),
                !.value = ProgressValue(Len(bar.items) - 1, bar.n_items)]

\* next(), after processEvents, with items left: pop(0) and setValue
BarPop(bar) ==
    [bar EXCEPT !.items = Tail(bar.items),
                !.value = ProgressValue(Len(bar.items) - 1, bar.n_items)]

\* next(), after processEvents, with no item left: close()
BarClose(bar) == [bar EXCEPT !.shown = FALSE]

NoBar == [items |-> <<>>, n_items |-> 0, value |-> 0, shown |-> FALSE]

(***************************************************************************)
(* The scene graph one export works on: channels, curves, namespaces.      *)
(***************************************************************************)
FrameRange == 1..MaxFrame
Ranges == FrameRange \X FrameRange

RootNs == ":"
TmpNs == ":export_tmp"

\* the camera that is exported, its shape, and an animated node beside them
OrigNodes == {"cam", "camShape", "ctl"}
\* cmds.duplicate(self.tfm) made while :export_tmp is the current namespace
DupNodes == {"dup", "dupShape"}
\* the parent and the scale constraint on the duplicate
ConsNodes == {"pCons", "sCons"}
AnimNodes == OrigNodes \cup DupNodes
\* the node the duplicate follows
DrivenBy(node) == IF node = "dup" THEN "cam" ELSE "camShape"

\* attribute names as listAttr gives them; the second has a '.' in it
Attrs == { <<"tx">>, <<"cp", ".", "x">>, <<"ro">> }
\* cmds.listAttr(_node, keyable=True)
KeyableAttrs == { <<"tx">>, <<"cp", ".", "x">> }

\* a channel with no animCurve on its input
NoCurve == [has |-> FALSE, keys |-> {}, static |-> FALSE]
\* an animCurve: the frames of its keys, and whether its value never changes
Curve(keys, static) == [has |-> TRUE, keys |-> keys, static |-> static]
NoCurves == [n \in AnimNodes |-> [a \in Attrs |-> NoCurve]]

\* mel DeleteAllStaticChannels: every static curve of the scene is deleted
DeleteAllStaticChannels(cv) ==
    [n \in DOMAIN cv |->
        [a \in DOMAIN cv[n] |->
            IF cv[n][a].has /\ cv[n][a].static THEN NoCurve ELSE cv[n][a]]]

\* cmds.setKeyframe(_chan, time=t, insert=True): a key at t, the shape kept
SetKeyframe(c, t) == [c EXCEPT !.keys = @ \cup {t}]

\* a variant that keys the first frame of the range only
BorderKeysStartOnly(c, attr, start, end) ==
    IF attr \notin KeyableAttrs \/ Has(attr, ".") \/ ~c.has
    THEN c
    ELSE SetKeyframe(c, start)

\* the body of the loop over the attributes of a selected node
BorderKeysChannel(c, attr, start, end) ==
    IF attr \notin KeyableAttrs THEN c
    ELSE IF Has(attr, ".") THEN c
    ELSE IF ~c.has THEN c
    ELSE SetKeyframe(SetKeyframe(c, start), end)

\* the loop over the selected nodes
AddBorderKeys(cv, sel, start, end) ==
    [n \in DOMAIN cv |->
        IF n \in sel
        THEN [a \in DOMAIN cv[n] |-> BorderKeysChannel(cv[n][a], a, start, end)]
        ELSE cv[n]]

\* the curves as _fbx_export_selection hands them to the FBX writer
CurvesBeforeWriter(cv, sel, range, border) ==
    IF border
    THEN AddBorderKeys(DeleteAllStaticChannels(cv), sel, range[1], range[2])
    ELSE cv

\* cmds.delete(nodes): the curves of deleted nodes go with them
CurvesAfterDelete(cv, deleted) ==
    [n \in DOMAIN cv |-> IF n \in deleted THEN [a \in Attrs |-> NoCurve] ELSE cv[n]]

\* _set_namespace(':export_tmp', clean): the nodes left in :export_tmp
NodesAfterSetNamespace(clean, tmp) == IF clean THEN {} ELSE tmp

\* cmds.bakeResults([_dup.tfm, _dup.shp], time=range_): a key on every frame
\* of the range on each keyable channel of the duplicate, which moves exactly
\* when the channel it follows does
BakeResults(cv, range) ==
    [n \in DOMAIN cv |->
        IF n \in DupNodes
        THEN [a \in Attrs |->
                 IF a \in KeyableAttrs /\ range[1] <= range[2]
                 THEN Curve(range[1]..range[2],
                            ~(cv[DrivenBy(n)][a].has /\ ~cv[DrivenBy(n)][a].static))
                 ELSE cv[n][a]]
        ELSE cv[n]]

NoExport == [dir |-> DefaultPath, range |-> <<1, 1>>, border |-> FALSE,
             cleanup |-> FALSE]
Snapshot == [curves |-> curves, tmpNodes |-> tmpNodes, curNs |-> curNs]

\* no export is under way in the scene
SceneIdle ==
    /\ selected = {}
    /\ cpc = "idle"
    /\ xpc = "idle"
    /\ xarg = NoExport
    /\ entry = Snapshot

\* the scene of the dialog's model: nothing animated, nothing left over
SceneInit ==
    /\ curves = NoCurves
    /\ curNs = RootNs
    /\ tmpNodes = {}
    /\ SceneIdle

(***************************************************************************)
(* _export_fbxs.                                                           *)
(***************************************************************************)
\* _abs_path('{}/A_{}_{}.fbx'.format(dir_, _Path(_cur_scene).basename, name))
FbxPath(dir, name) ==
    dir \o <<"/", "A_">> \o SceneBase \o <<"_">> \o name \o <<".fbx">>

\* the loop over exportables: _exports
ExportsOf(exportables, dir) ==
    [i \in 1..Len(exportables) |->
        [exp |-> exportables[i], fbx |-> FbxPath(dir, ExpName(exportables[i]))]]

\* the loop over exportables: _to_delete, one entry per export whose file exists
RECURSIVE ToDeleteOf(_, _)
ToDeleteOf(exports, onDisk) ==
    IF exports = <<>> THEN <<>>
    ELSE IF Head(exports).fbx \in onDisk
         THEN <<Head(exports).fbx>> \o ToDeleteOf(Tail(exports), onDisk)
         ELSE ToDeleteOf(Tail(exports), onDisk)

\* where the call stands once the paths are found
PcAfterPaths(exports, toDelete, dir, dirsOnDisk) ==
    IF exports = <<>> THEN "nothingDlg"
    ELSE IF dir \notin dirsOnDisk THEN "createDlg"
    ELSE IF toDelete # <<>> THEN "replaceDlg"
    ELSE "loop"

\* the call's frame when it reaches its first dialog or the progress bar
NewFrame(id, exportables, u, dirsOnDisk, filesOnDisk) ==
    LET exports == ExportsOf(exportables, u.path)
        toDelete == ToDeleteOf(exports, filesOnDisk)
        pc0 == PcAfterPaths(exports, toDelete, u.path, dirsOnDisk)
    IN  [run |-> id, dir |-> u.path, roots |-> RootsOf(u.roots),
         bake |-> u.bake_cams_in_world, border |-> u.add_border_keys,
         exports |-> exports, toDelete |-> toDelete, pc |-> pc0,
         bar |-> IF pc0 = "loop" THEN BarInit(exports) ELSE NoBar,
         endedAt |-> "",
         \* the live nodes the list the selection was made in was drawn on
         listedOn |-> drawnOn,
         \* what the call has done so far
         confirmed |-> {}, madeDir |-> FALSE, removed |-> <<>>,
         exported |-> <<>>, warned |-> <<>>, yielded |-> <<>>, pumps |-> 0]

\* os.remove over _to_delete: the files left, the paths removed, and whether
\* a path was gone already (OSError)
RECURSIVE RemoveAll(_, _, _)
RemoveAll(toDelete, onDisk, removed) ==
    IF toDelete = <<>>
    THEN [files |-> onDisk, removed |-> removed, ok |-> TRUE]
    ELSE IF Head(toDelete) \notin onDisk
         THEN [files |-> onDisk, removed |-> removed, ok |-> FALSE]
         ELSE RemoveAll(Tail(toDelete), onDisk \ {Head(toDelete)},
                        Append(removed, Head(toDelete)))

\* a slip: os.makedirs before the answer is looked at
DirsAfterCreateUnasked(result, dir, dirsOnDisk) == dirsOnDisk \cup {dir}

\* the directories on disk after the 'Create dir?' box gave result
DirsAfterCreate(result, dir, dirsOnDisk) ==
    IF result = "Ok" THEN dirsOnDisk \cup {dir} ELSE dirsOnDisk

\* the removal after the 'Replace ... existing fbxs?' box gave result
FilesAfterReplace(result, toDelete, onDisk) ==
    IF result = "Ok" THEN RemoveAll(toDelete, onDisk, <<>>)
    ELSE [files |-> onDisk, removed |-> <<>>, ok |-> TRUE]

\* the nodes a rig is exported with: the '<namespace>:<root>' that exist
RECURSIVE RootNodesOf(_, _, _)
RootNodesOf(namespace, roots, live) ==
    IF roots = <<>> THEN <<>>
    ELSE IF ObjExists(NodeName(namespace, Head(roots)), live)
         THEN <<NodeName(namespace, Head(roots))>>
                  \o RootNodesOf(namespace, Tail(roots), live)
         ELSE RootNodesOf(namespace, Tail(roots), live)

\* cmds.ls(namespace + ":*", referencedNodes=True)
NodesIn(namespace, live) ==
    { n \in FixedNodes \cup live :
        /\ Len(n) > Len(namespace)
        /\ SubSeq(n, 1, Len(namespace) + 1) = namespace \o <<":">> }

\* what cmds.select has selected when the export of an item is over
SelectedAfter(exp, how, roots, live) ==
    IF how = "world" THEN DupNodes
    ELSE IF how = "roots"
         THEN SeqToSet(RootNodesOf(RigNamespace(exp), roots, live))
         ELSE IF exp.kind = "cam" THEN {exp.id, exp.id \o <<"Shape">>}
              ELSE NodesIn(RigNamespace(exp), live)

\* a slip: the warning as soon as one of the possible nodes is missing
BodyBranchAnyMissing(exp, bake, roots, live) ==
    IF exp.kind = "cam" /\ bake THEN "world"
    ELSE IF exp.kind = "rig" /\ roots # <<>>
         THEN IF Len(RootNodesOf(RigNamespace(exp), roots, live)) < Len(roots)
              THEN "warn" ELSE "roots"
         ELSE "plain"

\* the branch the loop body takes for one export
BodyBranch(exp, bake, roots, live) ==
    IF exp.kind = "cam" /\ bake THEN "world"
    ELSE IF exp.kind = "rig" /\ roots # <<>>
         THEN IF RootNodesOf(RigNamespace(exp), roots, live) = <<>>
              THEN "warn" ELSE "roots"
         ELSE "plain"

(***************************************************************************)
(* The dialog's event handlers.  A handler runs when the event loop gets   *)
(* to it: when no export is running, or inside the processEvents() call of *)
(* _ProgressBar.next of the innermost running export.                      *)
(***************************************************************************)
Top == stack[Len(stack)]
SetTop(f) == [stack EXCEPT ![Len(stack)] = f]
Popped == SubSeq(stack, 1, Len(stack) - 1)

CanCall == dlgOpen /\ (IF stack = <<>> THEN TRUE ELSE Top.pc = "pumping")

\* selectedItems(): any of the list's items, in the list's order
RECURSIVE Selections(_)
Selections(items) ==
    IF items = <<>> THEN { <<>> }
    ELSE LET rest == Selections(Tail(items))
         IN  rest \cup { <<Head(items)>> \o sel : sel \in rest }

\* show_default_cams.stateChanged -> _redraw__exportables
ToggleShowDefault ==
    /\ CanCall
    /\ ui' = [ui EXCEPT !.show_default_cams = ~ui.show_default_cams]
    /\ listItems' = Redraw(ui', nodes)
    /\ drawnOn' = nodes
    /\ UNCHANGED <<settings, dlgOpen, nodes, dirs, files, stack, nRuns,
                   loadGhost, savedUi,
                   sceneVars>>

\* roots.textChanged -> _redraw__exportables
EditRoots(text) ==
    /\ CanCall
    /\ text # ui.roots
    /\ ui' = [ui EXCEPT !.roots = text]
    /\ listItems' = Redraw(ui', nodes)
    /\ drawnOn' = nodes
    /\ UNCHANGED <<settings, dlgOpen, nodes, dirs, files, stack, nRuns,
                   loadGhost, savedUi,
                   sceneVars>>

\* the widgets no handler is connected to: the path field and two checkboxes
EditPath(dir) ==
    /\ CanCall
    /\ dir # ui.path
    /\ ui' = [ui EXCEPT !.path = dir]
    /\ UNCHANGED <<settings, listItems, dlgOpen, nodes, dirs, files, stack,
                   nRuns, loadGhost, savedUi,
                   sceneVars, drawnOn>>

ToggleBake ==
    /\ CanCall
    /\ ui' = [ui EXCEPT !.bake_cams_in_world = ~ui.bake_cams_in_world]
    /\ UNCHANGED <<settings, listItems, dlgOpen, nodes, dirs, files, stack,
                   nRuns, loadGhost, savedUi,
                   sceneVars, drawnOn>>

ToggleBorder ==
    /\ CanCall
    /\ ui' = [ui EXCEPT !.add_border_keys = ~ui.add_border_keys]
    /\ UNCHANGED <<settings, listItems, dlgOpen, nodes, dirs, files, stack,
                   nRuns, loadGhost, savedUi,
                   sceneVars, drawnOn>>

\* _callback__browse, the artist having picked an existing directory
CallbackBrowse(dir) ==
    /\ CanCall
    /\ dir \in dirs
    /\ ui' = [ui EXCEPT !.path = dir]
    /\ settings' = SaveSettings(ui')
    /\ savedUi' = [has |-> TRUE, ui |-> ui']
    /\ UNCHANGED <<listItems, dlgOpen, nodes, dirs, files, stack, nRuns,
                   loadGhost,
                   sceneVars, drawnOn>>

\* closeEvent
CloseEvent ==
    /\ CanCall
    /\ settings' = SaveSettings(ui)
    /\ savedUi' = [has |-> TRUE, ui |-> ui]
    /\ dlgOpen' = FALSE
    /\ UNCHANGED <<ui, listItems, nodes, dirs, files, stack, nRuns,
                   loadGhost,
                   sceneVars, drawnOn>>

\* launch_fbx_exporter(path, roots), no dialog being up
Launch(argPath, argRoots) ==
    /\ ~dlgOpen
    /\ stack = <<>>
    /\ ui' = LaunchUi(settings, dirs, argPath, argRoots)
    /\ listItems' = Redraw(ui', nodes)
    /\ drawnOn' = nodes
    /\ loadGhost' = LoadGhostOf(settings, savedUi)
    /\ dlgOpen' = TRUE
    /\ UNCHANGED <<settings, nodes, dirs, files, stack, nRuns, savedUi,
                   sceneVars>>

\* the host is restarted: the store is read from the INI file again
Restart ==
    /\ ~dlgOpen
    /\ stack = <<>>
    /\ settings' = [a \in SaveAttrSet |-> IniRead(settings[a])]
    /\ settings' # settings
    /\ UNCHANGED <<ui, listItems, dlgOpen, nodes, dirs, files, stack,
                   nRuns, loadGhost, savedUi,
                   sceneVars, drawnOn>>

\* the artist creates or deletes a root node, no export running
SceneChange(node) ==
    /\ stack = <<>>
    /\ nodes' = IF node \in nodes THEN nodes \ {node} ELSE nodes \cup {node}
    /\ UNCHANGED <<ui, settings, listItems, dlgOpen, dirs, files, stack,
                   nRuns, loadGhost, savedUi,
                   sceneVars, drawnOn>>

\* _callback__export up to the first dialog or the progress bar of
\* _export_fbxs
CallbackExport(sel) ==
    /\ CanCall
    /\ nRuns < MaxRuns
    /\ settings' = SaveSettings(ui)
    /\ savedUi' = [has |-> TRUE, ui |-> ui]
    /\ nRuns' = nRuns + 1
    /\ stack' = Append(stack, NewFrame(nRuns + 1, sel, ui, dirs, files))
    /\ UNCHANGED <<ui, listItems, dlgOpen, nodes, dirs, files, loadGhost, nEvents,
                   sceneVars, drawnOn>>

(***************************************************************************)
(* The steps of a running _export_fbxs call.                               *)
(***************************************************************************)
Running(pc) == IF stack = <<>> THEN FALSE ELSE Top.pc = pc

\* the call ends: it returns ("returned"), or an error leaves it
EndRun(f, outcome) ==
    stack' = SetTop([f EXCEPT !.pc = outcome, !.endedAt = f.pc])

EndPcs == {"returned", "RuntimeError", "OSError"}

\* control is back in the event loop that made the call: the slot has
\* returned, or its error was reported there
Return ==
    /\ stack # <<>>
    /\ Top.pc \in EndPcs
    /\ stack' = Popped
    /\ UNCHANGED <<ui, settings, listItems, dlgOpen, nodes, dirs, files, nRuns,
                   loadGhost, savedUi, nEvents,
                   sceneVars, drawnOn>>

\* the pc after the confirmations: the progress bar is built
EnterLoop(f) == [f EXCEPT !.pc = "loop", !.bar = BarInit(f.exports)]

\* _notify('Nothing selected to export') answered
AnswerNothing(act) ==
    /\ Running("nothingDlg")
    /\ act \in UserActs(NotifyButtons)
    /\ EndRun(Top, IF Notify(act) = "Cancel" THEN "RuntimeError" ELSE "returned")
    /\ UNCHANGED <<ui, settings, listItems, dlgOpen, nodes, dirs, files, nRuns,
                   loadGhost, savedUi, nEvents,
                   sceneVars, drawnOn>>

\* _ok_cancel('Create dir?') answered, then os.makedirs
AnswerCreateDir(act) ==
    /\ Running("createDlg")
    /\ act \in UserActs(OkCancelButtons)
    /\ dirs' = DirsAfterCreate(OkCancel(act), Top.dir, dirs)
    /\ LET f == [Top EXCEPT !.madeDir = (dirs' # dirs),
                            !.confirmed = IF OkCancel(act) = "Ok"
                                          THEN @ \cup {"createDlg"} ELSE @]
       IN  IF OkCancel(act) = "Cancel"
           THEN EndRun(f, "RuntimeError")
           ELSE /\ stack' = SetTop(IF f.toDelete # <<>>
                                   THEN [f EXCEPT !.pc = "replaceDlg"]
                                   ELSE EnterLoop(f))
    /\ UNCHANGED <<ui, settings, listItems, dlgOpen, nodes, files, nRuns,
                   loadGhost, savedUi, nEvents,
                   sceneVars, drawnOn>>

\* _ok_cancel('Replace ... existing fbxs?') answered, then the os.remove loop
AnswerReplace(act) ==
    /\ Running("replaceDlg")
    /\ act \in UserActs(OkCancelButtons)
    /\ LET rm == FilesAfterReplace(OkCancel(act), Top.toDelete, files)
           f == [Top EXCEPT !.removed = rm.removed,
                            !.confirmed = IF OkCancel(act) = "Ok"
                                          THEN @ \cup {"replaceDlg"} ELSE @]
       IN  /\ files' = rm.files
           /\ IF OkCancel(act) = "Cancel" THEN EndRun(f, "RuntimeError")
              ELSE IF ~rm.ok THEN EndRun(f, "OSError")
              ELSE stack' = SetTop(EnterLoop(f))
    /\ UNCHANGED <<ui, settings, listItems, dlgOpen, nodes, dirs, nRuns,
                   loadGhost, savedUi, nEvents,
                   sceneVars, drawnOn>>

\* _ProgressBar.next enters processEvents()
BarPump ==
    /\ Running("loop")
    /\ stack' = SetTop([Top EXCEPT !.pc = "pumping", !.pumps = @ + 1])
    /\ UNCHANGED <<ui, settings, listItems, dlgOpen, nodes, dirs, files, nRuns,
                   loadGhost, savedUi, nEvents,
                   sceneVars, drawnOn>>

\* processEvents() returns with items left: the next item is handed out
BarYield ==
    /\ Running("pumping")
    /\ Top.bar.items # <<>>
    /\ stack' = SetTop([Top EXCEPT !.pc = "body",
                                   !.yielded = Append(@, Head(Top.bar.items)),
                                   !.bar = BarPop(Top.bar)])
    /\ UNCHANGED <<ui, settings, listItems, dlgOpen, nodes, dirs, files, nRuns,
                   loadGhost, savedUi, nEvents,
                   sceneVars, drawnOn>>

\* processEvents() returns with no item left: close(), StopIteration, and
\* _export_fbxs returns
BarStop ==
    /\ Running("pumping")
    /\ Top.bar.items = <<>>
    /\ EndRun([Top EXCEPT !.bar = BarClose(Top.bar)], "returned")
    /\ UNCHANGED <<ui, settings, listItems, dlgOpen, nodes, dirs, files, nRuns,
                   loadGhost, savedUi, nEvents,
                   sceneVars, drawnOn>>

\* the loop body for the item handed out: an FBX export, or the warning box.
\* The export is taken whole here: with nothing animated in this scene it
\* leaves the file and the selection; its steps are those of ExportFbx and
\* CamCall below.
ExportItem ==
    /\ Running("body")
    /\ LET item == Top.yielded[Len(Top.yielded)]
           how == BodyBranch(item.exp, Top.bake, Top.roots, nodes)
       IN  IF how = "warn"
           THEN /\ stack' = SetTop([Top EXCEPT !.pc = "warnDlg",
                                               !.warned = Append(@, item)])
                /\ files' = files
                /\ selected' = selected
           ELSE /\ stack' = SetTop([Top EXCEPT
                        !.pc = "loop",
                        !.exported = Append(@, [exp |-> item.exp,
                                                fbx |-> item.fbx, how |-> how])])
                /\ files' = files \cup {item.fbx}
                /\ selected' = SelectedAfter(item.exp, how, Top.roots, nodes)
    /\ UNCHANGED <<ui, settings, listItems, dlgOpen, nodes, dirs, nRuns,
                   loadGhost, savedUi, nEvents, curves, curNs, tmpNodes, cpc,
                   xpc, xarg, entry, drawnOn>>

\* _notify('No root nodes exist ...') answered, then continue
AnswerWarn(act) ==
    /\ Running("warnDlg")
    /\ act \in UserActs(NotifyButtons)
    /\ IF Notify(act) = "Cancel" THEN EndRun(Top, "RuntimeError")
       ELSE stack' = SetTop([Top EXCEPT !.pc = "loop"])
    /\ UNCHANGED <<ui, settings, listItems, dlgOpen, nodes, dirs, files, nRuns,
                   loadGhost, savedUi, nEvents,
                   sceneVars, drawnOn>>

(***************************************************************************)
(* One export in the scene graph, step by step.                            *)
(***************************************************************************)
\* _Exportable.export_fbx: the nodes are selected
ExportFbx(nodesArg, dir, range, border) ==
    /\ cpc = "idle"
    /\ xpc = "idle"
    /\ selected' = nodesArg
    /\ xarg' = [dir |-> dir, range |-> range, border |-> border, cleanup |-> TRUE]
    /\ entry' = Snapshot
    /\ xpc' = "selected"
    /\ UNCHANGED <<dialogVars, dirs, files, curves, curNs, tmpNodes, cpc>>

\* _fbx_export_selection up to the FBX writer: border keys, os.makedirs
FbxPrepare ==
    /\ xpc = "selected"
    /\ curves' = CurvesBeforeWriter(curves, selected, xarg.range, xarg.border)
    /\ dirs' = dirs \cup {xarg.dir}
    /\ xpc' = "prepared"
    /\ UNCHANGED <<dialogVars, files, selected, curNs, tmpNodes, cpc, xarg, entry>>

\* the FBX writer writes the file
FbxWrite ==
    /\ xpc = "prepared"
    /\ files' = files \cup {FbxPath(xarg.dir, <<"x">>)}
    /\ xpc' = "written"
    /\ UNCHANGED <<dialogVars, dirs, curves, selected, curNs, tmpNodes, cpc,
                   xarg, entry>>

\* cmds.loadPlugin or the FBX writer raises; the error leaves every caller
FbxWriteFails ==
    /\ xpc = "prepared"
    /\ xpc' = "error"
    /\ cpc' = IF cpc = "exporting" THEN "error" ELSE cpc
    /\ UNCHANGED <<dialogVars, dirs, files, curves, selected, curNs, tmpNodes,
                   xarg, entry>>

\* export_fbx_in_world_space is called: _set_namespace(':export_tmp', clean=True)
CamCall(dir, range, border, cleanup) ==
    /\ cpc \in {"idle", "returned", "error"}
    /\ xpc' = "idle"
    /\ xarg' = [dir |-> dir, range |-> range, border |-> border,
                cleanup |-> cleanup]
    /\ entry' = Snapshot
    /\ tmpNodes' = NodesAfterSetNamespace(TRUE, tmpNodes)
    /\ curves' = CurvesAfterDelete(curves, tmpNodes)
    /\ curNs' = TmpNs
    /\ cpc' = "entered"
    /\ UNCHANGED <<dialogVars, dirs, files, selected>>

\* the camera is duplicated and put under the world
CamDuplicate ==
    /\ cpc = "entered"
    /\ tmpNodes' = tmpNodes \cup DupNodes
    /\ cpc' = "duplicated"
    /\ UNCHANGED <<dialogVars, dirs, files, curves, selected, curNs, xpc, xarg,
                   entry>>

\* the duplicate is connected and constrained to the camera
CamConstrain ==
    /\ cpc = "duplicated"
    /\ tmpNodes' = tmpNodes \cup ConsNodes
    /\ cpc' = "constrained"
    /\ UNCHANGED <<dialogVars, dirs, files, curves, selected, curNs, xpc, xarg,
                   entry>>

\* connectAttr or a constraint raises
CamConstrainFails ==
    /\ cpc = "duplicated"
    /\ cpc' = "error"
    /\ UNCHANGED <<dialogVars, dirs, files, curves, selected, curNs, tmpNodes,
                   xpc, xarg, entry>>

\* cmds.bakeResults
CamBake ==
    /\ cpc = "constrained"
    /\ curves' = BakeResults(curves, xarg.range)
    /\ cpc' = "baked"
    /\ UNCHANGED <<dialogVars, dirs, files, selected, curNs, tmpNodes, xpc, xarg,
                   entry>>

\* cmds.bakeResults raises
CamBakeFails ==
    /\ cpc = "constrained"
    /\ cpc' = "error"
    /\ UNCHANGED <<dialogVars, dirs, files, curves, selected, curNs, tmpNodes,
                   xpc, xarg, entry>>

\* the constraints are deleted, then mel DeleteAllStaticChannels
CamDeleteCons ==
    /\ cpc = "baked"
    /\ tmpNodes' = tmpNodes \ ConsNodes
    /\ curves' = DeleteAllStaticChannels(curves)
    /\ cpc' = "readied"
    /\ UNCHANGED <<dialogVars, dirs, files, selected, curNs, xpc, xarg, entry>>

\* _dup.export_fbx: the duplicate's transform and shape are selected
CamExportFbx ==
    /\ cpc = "readied"
    /\ selected' = DupNodes
    /\ xpc' = "selected"
    /\ cpc' = "exporting"
    /\ UNCHANGED <<dialogVars, dirs, files, curves, curNs, tmpNodes, xarg, entry>>

\* the export is back: if cleanup: _set_namespace(':export_tmp', clean=True),
\* then _set_namespace(':')
CamCleanup ==
    /\ cpc = "exporting"
    /\ xpc = "written"
    /\ tmpNodes' = NodesAfterSetNamespace(xarg.cleanup, tmpNodes)
    /\ curves' = CurvesAfterDelete(curves, tmpNodes \ tmpNodes')
    /\ curNs' = RootNs
    /\ cpc' = "returned"
    /\ xpc' = "idle"
    /\ UNCHANGED <<dialogVars, dirs, files, selected, xarg, entry>>

(***************************************************************************)
(* The exporter dialog and its export batches.                             *)
(***************************************************************************)
InitFiles == { {}, {FbxPath(DefaultPath, <<"s">>)} }

Init ==
    /\ SceneInit
    /\ settings = EmptyStore
    /\ dirs = {DefaultPath}
    /\ files \in InitFiles
    /\ nodes = LooseNodes
    /\ \E argPath \in {NoArg, OtherPath}, argRoots \in {NoArg} :
          ui = LaunchUi(settings, dirs, argPath, argRoots)
    /\ listItems = Redraw(ui, nodes)
    /\ drawnOn = nodes
    /\ savedUi = NeverSaved
    /\ loadGhost = LoadGhostOf(settings, savedUi)
    /\ dlgOpen = TRUE
    /\ stack = <<>>
    /\ nRuns = 0
    /\ nEvents = 0

\* one more event is within the bound
CountEvent == nEvents < MaxEvents /\ nEvents' = nEvents + 1

Next ==
    \/ ToggleShowDefault /\ CountEvent
    \/ (\E text \in RootsTexts : EditRoots(text)) /\ CountEvent
    \/ (\E dir \in Dirs : EditPath(dir)) /\ CountEvent
    \/ ToggleBake /\ CountEvent
    \/ (\E dir \in Dirs : CallbackBrowse(dir)) /\ CountEvent
    \/ CloseEvent /\ CountEvent
    \/ (\E node \in LooseNodes : SceneChange(node)) /\ CountEvent
    \/ \E sel \in Selections(listItems) : CallbackExport(sel)
    \/ \E act \in UserActs(NotifyButtons) : AnswerNothing(act)
    \/ \E act \in UserActs(OkCancelButtons) : AnswerCreateDir(act)
    \/ \E act \in UserActs(OkCancelButtons) : AnswerReplace(act)
    \/ BarPump
    \/ BarYield
    \/ BarStop
    \/ ExportItem
    \/ \E act \in UserActs(NotifyButtons) : AnswerWarn(act)
    \/ Return

Spec == Init /\ [][Next]_vars

(***************************************************************************)
(* Properties of an export batch.                                          *)
(***************************************************************************)
Frames == { stack[i] : i \in 1..Len(stack) }

\* s without the elements of the sequence drop, in s's order
Without(s, drop) == FilterSeq(s, SeqToSet(s) \ SeqToSet(drop))

\* exported without the branch taken: the (exportable, path) pairs
Pairs(exported) ==
    [i \in 1..Len(exported) |-> [exp |-> exported[i].exp, fbx |-> exported[i].fbx]]

\* <dir>/A_<scene basename>_<exportable name>.fbx
TargetPath(dir, exp) ==
    dir \o <<"/", "A_", SceneBase[1], "_">> \o ExpName(exp) \o <<".fbx">>

\* no node '<namespace>:<root>' exists for a root of the call
NoRootExists(f, exp) ==
    \A i \in 1..Len(f.roots) :
        NodeName(RigNamespace(exp), f.roots[i]) \notin (FixedNodes \cup nodes)

C2_PathsDistinct ==
    \A f \in Frames :
        \A i, j \in 1..Len(f.exports) :
            i # j => f.exports[i].fbx # f.exports[j].fbx

\* C3: a call has created the directory only with 'Create dir?' answered Ok
\* and removed files only with 'Replace ...?' answered Ok; a call that a
\* Cancel of either box ended with RuntimeError has created no directory,
\* removed no file and invoked no FBX export.
C3_ConfirmBeforeDestroy ==
    \A f \in Frames :
        /\ f.madeDir => "createDlg" \in f.confirmed
        /\ (f.pc = "createDlg" \/ f.endedAt = "createDlg") =>
              (f.dir \in dirs => "createDlg" \in f.confirmed)
        /\ f.removed # <<>> => "replaceDlg" \in f.confirmed
        /\ (f.pc = "replaceDlg" \/ f.endedAt = "replaceDlg") =>
              \A i \in 1..Len(f.toDelete) :
                  f.toDelete[i] \in files \/ "replaceDlg" \in f.confirmed
        /\ (f.pc = "RuntimeError" /\ f.endedAt \in {"createDlg", "replaceDlg"}) =>
              /\ ~f.madeDir
              /\ f.removed = <<>>
              /\ f.exported = <<>>

\* 'Replace ...?' was cancelled and the call ended with RuntimeError
C3_Witness ==
    \E f \in Frames :
        /\ f.pc = "RuntimeError"
        /\ f.endedAt = "replaceDlg"
        /\ f.toDelete # <<>>

\* C4 as stated: once a rig was warned about, the batch goes on to the next
\* item however the warning is dismissed: the call does not end with an
\* error, and when it has ended every other selected item was exported.
C4_WarnThenGoOn ==
    \A f \in Frames :
        f.warned # <<>> =>
            /\ f.pc # "RuntimeError"
            /\ f.pc = "returned" =>
                  Len(f.exported) + Len(f.warned) = Len(f.exports)

\* what a call with an empty selection has done: nothing
EmptyCallNoEffect(f) ==
    /\ f.confirmed = {}
    /\ ~f.madeDir
    /\ f.removed = <<>>
    /\ f.bar = NoBar
    /\ f.pumps = 0
    /\ f.exported = <<>>

\* no step of a call with an empty selection touches the disk or the scene
EmptyCallStep ==
    (\E f \in Frames : f.exports = <<>> /\ f.pc \notin EndPcs) =>
        /\ dirs' = dirs
        /\ files' = files
        /\ sceneVars' = sceneVars

\* C11 as stated: a call with an empty selection shows the 'Nothing selected
\* to export' notice and then returns, and has no side effect: no directory
\* made, no confirmation asked, no file removed, no progress bar, no export,
\* also when the export directory does not exist.
C11_EmptySelectionReturns ==
    /\ [](\A f \in Frames :
            f.exports = <<>> =>
                /\ f.pc \in {"nothingDlg", "returned"}
                /\ f.pc = "returned" => f.endedAt = "nothingDlg"
                /\ EmptyCallNoEffect(f))
    /\ [][EmptyCallStep]_vars

\* how often x occurs in the sequence s
Count(s, x) == Cardinality({i \in 1..Len(s) : s[i] = x})

\* C13 as stated: once the overwrite is confirmed, the removal does not fail
\* on a file it has removed already, each target file that existed is
\* removed exactly once, and all of them before the first export, also when
\* several selected items have the same target path.
C13_RemovedOnceBeforeExport ==
    \A f \in Frames :
        "replaceDlg" \in f.confirmed =>
            /\ f.pc # "OSError"
            /\ \A i \in 1..Len(f.toDelete) : Count(f.removed, f.toDelete[i]) = 1
            /\ f.exported # <<>> => SeqToSet(f.removed) = SeqToSet(f.toDelete)

\* C5 as stated: between the start and the end of a batch no callback of the
\* dialog runs: the widgets, the list and the settings stay as they are, the
\* dialog stays up and no second batch starts.
C5_NoCallbackDuringBatch ==
    [][stack # <<>> =>
         /\ ui' = ui
         /\ listItems' = listItems
         /\ settings' = settings
         /\ dlgOpen' = dlgOpen
         /\ Len(stack') <= Len(stack)]_vars

(***************************************************************************)
(* _ProgressBar on its own: a for loop over a list of items.               *)
(***************************************************************************)
ItemValues == {"a", "b"}
ItemLists == UNION { [1..k -> ItemValues] : k \in 0..MaxItems }

\* for item in _ProgressBar(items): the caller's list is kept in exports
BarFrame(items) ==
    [pc |-> "loop", exports |-> items, bar |-> BarInit(items),
     yielded |-> <<>>, pumps |-> 0, endedAt |-> ""]

\* the body of the for loop is done with the item
LoopBody ==
    /\ Running("body")
    /\ stack' = SetTop([Top EXCEPT !.pc = "loop"])
    /\ UNCHANGED <<ui, settings, listItems, dlgOpen, nodes, dirs, files, nRuns,
                   nEvents, loadGhost, savedUi,
                   sceneVars, drawnOn>>

InitBar ==
    /\ SceneInit
    /\ settings = EmptyStore
    /\ dirs = {DefaultPath}
    /\ files = {}
    /\ nodes = LooseNodes
    /\ ui = WidgetDefaults
    /\ listItems = <<>>
    /\ drawnOn = nodes
    /\ savedUi = NeverSaved
    /\ loadGhost = LoadGhostOf(settings, savedUi)
    /\ dlgOpen = FALSE
    /\ \E items \in ItemLists : stack = <<BarFrame(items)>>
    /\ nRuns = 0
    /\ nEvents = 0

NextBar ==
    \/ BarPump
    \/ BarYield
    \/ BarStop
    \/ LoopBody

SpecBar == InitBar /\ [][NextBar]_vars

\* what C9 says of a progress bar at any moment of its iteration
BarFaithful(f) ==
    LET k == Len(f.yielded)
        n == f.bar.n_items
    IN  /\ f.yielded \o f.bar.items = f.exports
        /\ n = Len(f.exports)
        /\ f.pc \in {"loop", "body"} => f.pumps = k
        /\ f.pc = "pumping" => f.pumps = k + 1
        /\ f.pumps <= n + 1
        /\ f.pc = "returned" =>
              /\ f.yielded = f.exports
              /\ f.pumps = n + 1
              /\ ~f.bar.shown
        /\ f.pc # "returned" => f.bar.shown
        /\ f.bar.value \in 0..100
        /\ (n > 0 /\ k = n) => f.bar.value = 100
        /\ n = 0 => f.bar.value = 0

\* a step keeps the caller's list, never lowers the progress value, and
\* hands out an item only by taking it off the bar's own list
BarStepFaithful ==
    \A i \in 1..Len(stack) :
        i <= Len(stack') =>
            /\ stack'[i].exports = stack[i].exports
            /\ stack'[i].bar.value >= stack[i].bar.value
            /\ Len(stack'[i].bar.items) <= Len(stack[i].bar.items)

\* C9: the iteration yields each item once, in the list's order, pumps the
\* event queue once before each yield, closes the widget when it stops after
\* the last item (at once for an empty list), never lowers the progress
\* value, shows 100 once the last item is yielded, and leaves the caller's
\* list as it was.
C9_BarFaithful ==
    /\ [](\A f \in Frames : BarFaithful(f))
    /\ [][BarStepFaithful]_vars

\* a list of three items, two of them equal, has been iterated to the end
C9_Witness ==
    \E f \in Frames :
        /\ f.pc = "returned"
        /\ f.exports = <<"a", "b", "a">>
        /\ f.bar.value = 100

(***************************************************************************)
(* The dialog without export batches: widgets, list and settings.          *)
(***************************************************************************)
CountUiEvent == nEvents < MaxUiEvents /\ nEvents' = nEvents + 1

InitUi ==
    /\ SceneInit
    /\ settings = EmptyStore
    /\ dirs = {DefaultPath}
    /\ files = {}
    /\ nodes \in SUBSET LooseNodes
    /\ \E argPath \in {NoArg, OtherPath}, argRoots \in {NoArg} \cup RootsTexts :
          ui = LaunchUi(settings, dirs, argPath, argRoots)
    /\ listItems = Redraw(ui, nodes)
    /\ drawnOn = nodes
    /\ savedUi = NeverSaved
    /\ loadGhost = LoadGhostOf(settings, savedUi)
    /\ dlgOpen = TRUE
    /\ stack = <<>>
    /\ nRuns = 0
    /\ nEvents = 0

NextUi ==
    \/ ToggleShowDefault /\ CountUiEvent
    \/ (\E text \in RootsTexts : EditRoots(text)) /\ CountUiEvent
    \/ (\E dir \in Dirs : EditPath(dir)) /\ CountUiEvent
    \/ ToggleBake /\ CountUiEvent
    \/ ToggleBorder /\ CountUiEvent
    \/ (\E dir \in Dirs : CallbackBrowse(dir)) /\ CountUiEvent
    \/ CloseEvent /\ CountUiEvent
    \/ (\E argPath \in {NoArg, OtherPath}, argRoots \in {NoArg} \cup RootsTexts :
           Launch(argPath, argRoots)) /\ CountUiEvent
    \/ Restart /\ CountUiEvent
    \/ (\E node \in LooseNodes : SceneChange(node)) /\ CountUiEvent

SpecUi == InitUi /\ [][NextUi]_vars

\* C6: load_settings after save_settings sets each of the five widgets to
\* the value it had when saved, whether the store still holds the values as
\* given or has been read back from the INI file; a widget the store has no
\* value for is left as it was.
C6_SettingsRoundTrip ==
    \A a \in SaveAttrSet :
        /\ loadGhost.saved.has => loadGhost.after[a] = loadGhost.saved.ui[a]
        /\ loadGhost.store[a] = NoValue => loadGhost.after[a] = loadGhost.before[a]

\* a dialog has loaded, from the INI file, two checkboxes saved unlike their
\* defaults and a path
C6_Witness ==
    /\ loadGhost.saved.has
    /\ loadGhost.store["bake_cams_in_world"] = StrValue(<<"false">>)
    /\ loadGhost.store["show_default_cams"] = StrValue(<<"true">>)
    /\ loadGhost.after["bake_cams_in_world"] = FALSE
    /\ loadGhost.after["show_default_cams"] = TRUE
    /\ loadGhost.after["path"] = OtherPath

\* the cameras C8 lists: one per camera shape, the default ones only on demand
ListedCams(showDefault) ==
    LET Kept(tfm) ==
            showDefault \/ tfm \notin { <<"persp">>, <<"top">>, <<"front">>, <<"side">> }
        kept == SelectSeq(SceneCams, Kept)
    IN  [i \in 1..Len(kept) |-> [kind |-> "cam", id |-> kept[i]]]

\* the rigs C8 lists: the reference nodes that pass its four conditions
ListedRigs(rootsText, live) ==
    LET rootNames == SeqToSet(Split(rootsText, {",", " "}))
        Kept(ref) ==
            /\ ref.file
            /\ ref.loaded
            /\ ref.parentNs = <<>>
            /\ \E root \in rootNames :
                  (ref.ns \o <<":">> \o root) \in (FixedNodes \cup live)
        kept == SelectSeq(SceneRefs, Kept)
    IN  [i \in 1..Len(kept) |-> [kind |-> "rig", id |-> <<kept[i].node>>]]

\* the steps in which _redraw__exportables runs: the checkbox or the roots
\* text changes, or the dialog is built
Redrawn ==
    \/ ui'.show_default_cams # ui.show_default_cams
    \/ ui'.roots # ui.roots
    \/ dlgOpen' /\ ~dlgOpen

\* C8: after _redraw__exportables the list is the cameras, then the rigs.
C8_ListAfterRedraw ==
    /\ listItems = ListedCams(ui.show_default_cams) \o ListedRigs(ui.roots, nodes)
    /\ [][Redrawn =>
            listItems' = ListedCams(ui'.show_default_cams)
                             \o ListedRigs(ui'.roots, nodes')]_vars

\* the list has been redrawn with the default camera shown, one rig listed
\* and the other left out for want of a root node
C8_Witness ==
    /\ nEvents > 0
    /\ ui.show_default_cams
    /\ listItems = << Camera(<<"persp">>), Camera(<<"s", ":", "a">>), Rig("r5") >>
    /\ NodeName(<<"s">>, <<"J">>) \notin nodes

(***************************************************************************)
(* The list and the batches together: the dialog is launched, its list is  *)
(* redrawn by events, the scene changes, and selections are exported.      *)
(***************************************************************************)
CountListEvent == nEvents < MaxListEvents /\ nEvents' = nEvents + 1

InitList ==
    /\ SceneInit
    /\ settings = EmptyStore
    /\ dirs = {DefaultPath}
    /\ files = {FbxPath(DefaultPath, <<"s">>)}
    /\ nodes \in {LooseNodes, LooseNodes \ {NodeName(<<"s">>, <<"J">>)}}
    /\ \E argRoots \in {NoArg} \cup RootsTexts :
          ui = LaunchUi(settings, dirs, NoArg, argRoots)
    /\ listItems = Redraw(ui, nodes)
    /\ drawnOn = nodes
    /\ savedUi = NeverSaved
    /\ loadGhost = LoadGhostOf(settings, savedUi)
    /\ dlgOpen = TRUE
    /\ stack = <<>>
    /\ nRuns = 0
    /\ nEvents = 0

NextList ==
    \/ ToggleShowDefault /\ CountListEvent
    \/ (\E text \in RootsTexts : EditRoots(text)) /\ CountListEvent
    \/ (\E dir \in Dirs : EditPath(dir)) /\ CountListEvent
    \/ CloseEvent /\ CountListEvent
    \/ (\E argRoots \in {NoArg} \cup RootsTexts : Launch(NoArg, argRoots))
           /\ CountListEvent
    \/ Restart /\ CountListEvent
    \/ (\E node \in LooseNodes : SceneChange(node)) /\ CountListEvent
    \/ \E sel \in Selections(listItems) : CallbackExport(sel)
    \/ \E act \in UserActs(NotifyButtons) : AnswerNothing(act)
    \/ \E act \in UserActs(OkCancelButtons) : AnswerCreateDir(act)
    \/ \E act \in UserActs(OkCancelButtons) : AnswerReplace(act)
    \/ BarPump
    \/ BarYield
    \/ BarStop
    \/ ExportItem
    \/ \E act \in UserActs(NotifyButtons) : AnswerWarn(act)
    \/ Return

SpecList == InitList /\ [][NextList]_vars

\* drawnOn is the scene of the last event that redraws the list
DrawnOnLastEvent ==
    IF Redrawn THEN drawnOn' = nodes' ELSE drawnOn' = drawnOn

\* a call whose selection was made in a list drawn on the scene as it is
ListedFresh(f) == f.listedOn = nodes

\* C12: the list is what _find_cams and _find_rigs give for the checkbox and
\* the roots text as they are, on the scene of the last event that redrew
\* it; so a rig exported from a list drawn on the scene as it is has a root
\* node and is never warned about.
C12_ListedRigHasRoot ==
    /\ [](listItems = FindCams(ui.show_default_cams)
                          \o FindRigs(RootsOf(ui.roots), drawnOn))
    /\ [][DrawnOnLastEvent]_vars
    /\ [](\A f \in Frames :
            ListedFresh(f) =>
                /\ f.warned = <<>>
                /\ \A i \in 1..Len(f.exports) :
                       f.exports[i].exp.kind = "rig" =>
                           RootNodesOf(RigNamespace(f.exports[i].exp),
                                       f.roots, nodes) # <<>>)

\* after the roots text was edited and a root node made, a rig picked from the
\* redrawn list has been exported with its root node
C12_Witness ==
    /\ nEvents = 2
    /\ ui.roots = <<"K">>
    /\ \E f \in Frames :
          /\ ListedFresh(f)
          /\ f.pc = "returned"
          /\ f.exported = << [exp |-> Rig("r5"),
                              fbx |-> FbxPath(DefaultPath, <<"t">>),
                              how |-> "roots"] >>

(***************************************************************************)
(* _Exportable.export_fbx on its own: the selection and its curves.        *)
(***************************************************************************)
\* the curves a channel starts with: none, a static one, an animated one
CurveChoices == { NoCurve, Curve({1}, TRUE), Curve({1, MaxFrame}, FALSE) }

\* the dialog is not open and no batch runs
DialogClosed ==
    /\ settings = EmptyStore
    /\ dirs = {DefaultPath}
    /\ files = {}
    /\ nodes = LooseNodes
    /\ ui = WidgetDefaults
    /\ listItems = <<>>
    /\ drawnOn = nodes
    /\ savedUi = NeverSaved
    /\ loadGhost = LoadGhostOf(settings, savedUi)
    /\ dlgOpen = FALSE
    /\ stack = <<>>
    /\ nRuns = 0
    /\ nEvents = 0

InitKeys ==
    /\ \E cam \in [Attrs -> CurveChoices], ctlTx \in CurveChoices :
          curves = [NoCurves EXCEPT !["cam"] = cam, !["ctl"][<<"tx">>] = ctlTx]
    /\ curNs = RootNs
    /\ tmpNodes = {}
    /\ SceneIdle
    /\ DialogClosed

NextKeys ==
    \/ \E nodesArg \in SUBSET {"cam", "ctl"}, range \in Ranges, border \in BOOLEAN :
          ExportFbx(nodesArg, OtherPath, range, border)
    \/ FbxPrepare
    \/ FbxWrite
    \/ FbxWriteFails

SpecKeys == InitKeys /\ [][NextKeys]_vars

\* C7: when _fbx_export_selection is about to invoke the FBX writer, with
\* add_border_keys true every keyable channel of a selected node whose name
\* has no '.' and which an animation curve drives has a key at the first and
\* at the last frame of the range; with add_border_keys false the curves are
\* those of the call: no key inserted, no static channel deleted.
C7_BorderKeys ==
    xpc = "prepared" =>
        /\ xarg.border =>
              \A n \in selected, a \in KeyableAttrs :
                  (~Has(a, ".") /\ curves[n][a].has) =>
                      {xarg.range[1], xarg.range[2]} \subseteq curves[n][a].keys
        /\ ~xarg.border => curves = entry.curves

\* the writer is about to run on a selected camera whose animated channel has
\* gained the two border keys, whose channel with a '.' has been left alone,
\* beside a node that has lost its static channel
C7_Witness ==
    /\ xpc = "prepared"
    /\ xarg.border
    /\ xarg.range = <<2, 2>>
    /\ "cam" \in selected
    /\ entry.curves["cam"][<<"tx">>] = Curve({1, MaxFrame}, FALSE)
    /\ curves["cam"][<<"tx">>] = Curve({1, 2, MaxFrame}, FALSE)
    /\ curves["cam"][<<"cp", ".", "x">>] = Curve({1, MaxFrame}, FALSE)
    /\ entry.curves["ctl"][<<"tx">>] = Curve({1}, TRUE)
    /\ curves["ctl"][<<"tx">>] = NoCurve

(***************************************************************************)
(* _Camera.export_fbx_in_world_space, one call after another.              *)
(***************************************************************************)
InitCam ==
    /\ \E camTx \in CurveChoices, shpTx \in {NoCurve, Curve({1, MaxFrame}, FALSE)},
          ctlTx \in CurveChoices :
          curves = [NoCurves EXCEPT !["cam"][<<"tx">>] = camTx,
                                    !["camShape"][<<"tx">>] = shpTx,
                                    !["ctl"][<<"tx">>] = ctlTx]
    /\ curNs = RootNs
    /\ tmpNodes = {}
    /\ SceneIdle
    /\ DialogClosed

NextCam ==
    \/ \E range \in Ranges, border \in BOOLEAN, cleanup \in BOOLEAN :
          CamCall(OtherPath, range, border, cleanup)
    \/ CamDuplicate
    \/ CamConstrain
    \/ CamConstrainFails
    \/ CamBake
    \/ CamBakeFails
    \/ CamDeleteCons
    \/ CamExportFbx
    \/ FbxPrepare
    \/ FbxWrite
    \/ FbxWriteFails
    \/ CamCleanup

SpecCam == InitCam /\ [][NextCam]_vars

\* C10: every exit of export_fbx_in_world_space with cleanup=True, by return
\* or by an error of a bake, constraint or FBX step, leaves ':' the current
\* namespace and no node in ':export_tmp'; at entry the nodes an earlier
\* export left in ':export_tmp' are gone before the camera is duplicated.
C10_NamespaceRestored ==
    /\ (cpc \in {"returned", "error"} /\ xarg.cleanup) =>
           (curNs = RootNs /\ tmpNodes = {})
    /\ cpc = "entered" => tmpNodes = {}

\* C14 as stated: the export of a camera changes only the duplicate: after
\* its return with cleanup=True the camera, its shape and every other node of
\* the scene have the animation curves and keys they had when the call was
\* made.
C14_OnlyDuplicateChanged ==
    (cpc = "returned" /\ xarg.cleanup) =>
        \A n \in OrigNodes : curves[n] = entry.curves[n]

====
